---- MODULE Spec2Model ----
(***************************************************************************)
(* A model of src/cv/checkBSDF.c (Radiance): the BSDF type classifier      *)
(* getBSDFtype, the Helmholtz reciprocity check checkReciprocity, and the  *)
(* driver checkXML / main that runs them over the files of the command     *)
(* line.                                                                   *)
(*                                                                         *)
(* Numbers.  Table values and luminances are integers counting units of    *)
(* FTINY (1e-6).  A relative error is an exact rational <<n, d>> in lowest *)
(* terms counting units of 100 percent, so that the code's                 *)
(* 100.*fabs(f - r)/f is the rational |f - r| / f and FHUGE (1e10 percent) *)
(* is 10^8 of these units.  Arithmetic is exact: the rounding of double    *)
(* arithmetic is not modelled.                                             *)
(***************************************************************************)
EXTENDS Integers, Sequences, FiniteSets, TLC

VARIABLES
    pc,        \* control location of the program
    argc,      \* main: argument count (program name included)
    argi,      \* main: the loop variable i
    rc,        \* main: exit status once returned
    started,   \* the argv indexes handed to checkXML so far, in order
    failed,    \* the argv indexes whose checkXML returned 0
    bsdf,      \* the SDData the current operation reads (myBSDF)
    type,      \* the string getBSDFtype returned
    flags,     \* the flags getBSDFtype stored
    side1,     \* checkReciprocity argument
    side2,     \* checkReciprocity argument
    fl,        \* checkReciprocity argument
    run,       \* locals and library calls of the last checkReciprocity call
    out        \* stdout lines of the reciprocity section of the current file

vars == <<pc, argc, argi, rc, started, failed, bsdf, type, flags,
          side1, side2, fl, run, out>>

(***************************************************************************)
(* Bounds of the model.                                                    *)
(***************************************************************************)
MaxCells == 4      \* a sampled matrix has ninc * nout <= MaxCells
GateBins == 1      \* matrices of the argument-gating runs: up to GateBins x GateBins
OrderCells == 4    \* the same, in the runs that try every visiting order
MaxFiles == 2      \* files on the command line

(***************************************************************************)
(* Program constants: the flag bits of lines 17-20, and the macros FTINY   *)
(* (1e-6, one value unit) and FHUGE (1e10 percent, 10^8 error units) of    *)
(* fvect.h that lines 111 and 87 use.                                      *)
(***************************************************************************)
F_IN_COLOR == 1
F_ISOTROPIC == 2
F_MATRIX == 4
F_TTREE == 8
FTINY == 1
FHUGE == 100000000

(***************************************************************************)
(* Bit operations on the flag word.                                        *)
(***************************************************************************)
HasBit(w, b) == (w \div b) % 2 = 1

OrBit(w, b) == IF HasBit(w, b) THEN w ELSE w + b

(***************************************************************************)
(* Exact rationals <<n, d>>, d > 0, in lowest terms.                       *)
(***************************************************************************)
Abs(x) == IF x < 0 THEN -x ELSE x

RECURSIVE Gcd(_, _)
Gcd(a, b) == IF b = 0 THEN a ELSE Gcd(b, a % b)

Q(n, d) == LET g == Gcd(n, d) IN IF n = 0 THEN <<0, 1>> ELSE <<n \div g, d \div g>>

QAdd(a, b) ==
    LET l == (a[2] \div Gcd(a[2], b[2])) * b[2]
    IN  Q(a[1] * (l \div a[2]) + b[1] * (l \div b[2]), l)

QDivInt(a, k) ==
    LET g == Gcd(a[1], k)
    IN  IF a[1] = 0 THEN <<0, 1>> ELSE <<a[1] \div g, a[2] * (k \div g)>>

\* a < b, comparing the integer parts first so that no product overflows
QLess(a, b) ==
    LET fa == a[1] \div a[2]
        fb == b[1] \div b[2]
    IN  \/ fa < fb
        \/ fa = fb /\ (a[1] % a[2]) * b[2] < (b[1] % b[2]) * a[2]

QLeq(a, b) == ~QLess(b, a)

(***************************************************************************)
(* SDData.  A hemisphere slot (an SDSpectralDF pointer) is NULL or holds   *)
(* its comp[0];                                                            *)
(* a component is [func, dist]: func is the evaluator it dispatches to,    *)
(* dist an SDMat or an SDTre.                                              *)
(***************************************************************************)
NULL == <<>>

SDhandleMtx == "SDhandleMtx"
SDhandleTre == "SDhandleTre"
SDhandleOther == "other"

SDMat(ninc, nout, chroma, val, incok, outok) ==
    [ninc |-> ninc, nout |-> nout, chroma |-> chroma,
     bsdf |-> val, incok |-> incok, outok |-> outok]

SDTre(ndim, chroma) == [ndim |-> ndim, stc1 |-> chroma]

SDComp(func, dist) == <<[func |-> func, dist |-> dist]>>

(***************************************************************************)
(* getBSDFtype: the type string and the flags of a dataset.                *)
(***************************************************************************)
FirstDFRfFirst(sd) ==
    LET df0 == sd.rf
        df1 == IF df0 = NULL THEN sd.tb ELSE df0
        df2 == IF df1 = NULL THEN sd.tf ELSE df1
    IN  IF df2 = NULL THEN sd.rb ELSE df2

\* lines 26-31: the first slot present, trying tb, tf, rf, rb
FirstDF(sd) ==
    LET df0 == sd.tb
        df1 == IF df0 = NULL THEN sd.tf ELSE df0
        df2 == IF df1 = NULL THEN sd.rf ELSE df1
    IN  IF df2 = NULL THEN sd.rb ELSE df2

MatrixTagShifted(ninc) ==
    CASE ninc = 145 -> "Klems_Half"
      [] ninc = 73 -> "Klems_Quarter"
      [] ninc = 41 -> "Klems_Quarter"
      [] OTHER -> "Unknown_Matrix"

\* lines 39-47: switch (m->ninc)
MatrixTag(ninc) ==
    CASE ninc = 145 -> "Klems_Full"
      [] ninc = 73 -> "Klems_Half"
      [] ninc = 41 -> "Klems_Quarter"
      [] OTHER -> "Unknown_Matrix"

getBSDFtype(sd) ==
    LET df == FirstDF(sd)
    IN  IF df = NULL THEN [tag |-> "Pure_Lambertian", flags |-> 0]
        ELSE IF df[1].func = SDhandleMtx
        THEN LET m == df[1].dist
                 f1 == OrBit(0, F_MATRIX)
                 f2 == IF m.chroma THEN OrBit(f1, F_IN_COLOR) ELSE f1
             IN  [tag |-> MatrixTag(m.ninc), flags |-> f2]
        ELSE IF df[1].func = SDhandleTre
        THEN LET t == df[1].dist
                 f1 == OrBit(0, F_TTREE)
                 f2 == IF t.stc1 THEN OrBit(f1, F_IN_COLOR) ELSE f1
             IN  CASE t.ndim = 4 -> [tag |-> "Anisotropic_Tensor_Tree", flags |-> f2]
                   [] t.ndim = 3 -> [tag |-> "Isotropic_Tensor_Tree",
                                     flags |-> OrBit(f2, F_ISOTROPIC)]
                   [] OTHER -> [tag |-> "Unknown_Tensor_Tree", flags |-> f2]
        ELSE [tag |-> "Unknown", flags |-> 0]

(***************************************************************************)
(* The library calls checkReciprocity makes.  A direction vector is the    *)
(* bin it was reconstructed from, <<"inc", i>> or <<"out", o>>; the        *)
(* dataset's evaluator SDevalBSDF is the table sd.ev of [ec, cieY] results *)
(* by (first vector's bin, second vector's bin).                           *)
(***************************************************************************)
mBSDF_incvec(m, i) == [ok |-> m.incok[i], v |-> <<"inc", i>>]

mBSDF_outvec(m, o) == [ok |-> m.outok[o], v |-> <<"out", o>>]

mBSDF_value(m, o, i) == m.bsdf[<<o, i>>]

SDevalBSDF(sd, v1, v2) == sd.ev[<<v1[2], v2[2]>>]

(***************************************************************************)
(* checkReciprocity.  st holds the locals (emin, emax, esum, ntested),     *)
(* ret (the early return of line 114 was taken) and the calls made so far: *)
(* recon (direction reconstructions), looked (table lookups <<o, i>>) and  *)
(* evals (evaluator calls <<o, i>>), each in call order.                   *)
(***************************************************************************)
Locals0BothHuge ==
    [emin |-> <<FHUGE, 1>>, emax |-> <<FHUGE, 1>>, esum |-> <<0, 1>>, ntested |-> 0,
     ret |-> FALSE, recon |-> <<>>, looked |-> <<>>, evals |-> <<>>]

\* lines 87-88
Locals0 ==
    [emin |-> <<FHUGE, 1>>, emax |-> <<0, 1>>, esum |-> <<0, 1>>, ntested |-> 0,
     ret |-> FALSE, recon |-> <<>>, looked |-> <<>>, evals |-> <<>>]

\* lines 86, 91-92: the slot df points to
Operative(s1, s2, sd) ==
    IF s1 = s2 THEN (IF s1 > 0 THEN sd.rf ELSE sd.rb) ELSE sd.tf

OperativeName(s1, s2) ==
    IF s1 = s2 THEN (IF s1 > 0 THEN "rf" ELSE "rb") ELSE "tf"

nothing2doTfOnly(s1, s2, sd) ==
    IF s1 = s2 THEN Operative(s1, s2, sd) = NULL
    ELSE sd.tf = NULL

\* lines 91-95: the jumps to nothing2do
nothing2do(s1, s2, sd) ==
    IF s1 = s2 THEN Operative(s1, s2, sd) = NULL
    ELSE (sd.tf = NULL) \/ (sd.tb = NULL)

IsMatrixFlAnyFlag(f) == f # 0

\* line 97: fl & F_MATRIX
IsMatrixFl(f) == HasBit(f, F_MATRIX)

\* line 115: 100.*fabs(rerr - vrev.cieY)/rerr, in units of 100 percent
RelErr(f, r) == Q(Abs(f - r), f)

AccumulateLastMin(st, rerr) ==
    [st EXCEPT !.emin = rerr,
               !.emax = IF QLess(st.emax, rerr) THEN rerr ELSE st.emax,
               !.esum = QAdd(st.esum, rerr),
               !.ntested = st.ntested + 1]

\* lines 116-119
Accumulate(st, rerr) ==
    [st EXCEPT !.emin = IF QLess(rerr, st.emin) THEN rerr ELSE st.emin,
               !.emax = IF QLess(st.emax, rerr) THEN rerr ELSE st.emax,
               !.esum = QAdd(st.esum, rerr),
               !.ntested = st.ntested + 1]

OnEvalErrorContinue(st) == st

\* lines 113-114: SDreportError(...) is true, return
OnEvalError(st) == [st EXCEPT !.ret = TRUE]

\* lines 108-119: the body of the inner loop for outgoing bin o
PairBody(sd, m, i, o, st) ==
    LET vin == mBSDF_incvec(m, i).v
        ov == mBSDF_outvec(m, o)
        st1 == [st EXCEPT !.recon = Append(st.recon, <<"out", o>>)]
        rerr == mBSDF_value(m, o, i)
        st2 == [st1 EXCEPT !.looked = Append(st1.looked, <<o, i>>)]
        vrev == SDevalBSDF(sd, ov.v, vin)
        st3 == [st2 EXCEPT !.evals = Append(st2.evals, <<ov.v[2], vin[2]>>)]
    IN  IF ~ov.ok THEN st1
        ELSE IF rerr <= FTINY THEN st2
        ELSE IF vrev.ec THEN OnEvalError(st3)
        ELSE Accumulate(st3, RelErr(rerr, vrev.cieY))

\* lines 107-120: while (o--)
RECURSIVE InnerLoop(_, _, _, _, _)
InnerLoop(sd, m, i, o, st) ==
    IF o = 0 \/ st.ret THEN st
    ELSE InnerLoop(sd, m, i, o - 1, PairBody(sd, m, i, o - 1, st))

\* lines 103-121: while (i--)
RECURSIVE OuterLoop(_, _, _, _)
OuterLoop(sd, m, i, st) ==
    IF i = 0 \/ st.ret THEN st
    ELSE LET st1 == [st EXCEPT !.recon = Append(st.recon, <<"inc", i - 1>>)]
         IN  IF ~mBSDF_incvec(m, i - 1).ok THEN OuterLoop(sd, m, i - 1, st1)
             ELSE OuterLoop(sd, m, i - 1, InnerLoop(sd, m, i - 1, m.nout, st1))

NoDataLine(nm) ==
    [nm |-> nm, kind |-> "nodata", min |-> <<0, 1>>, avg |-> <<0, 1>>, max |-> <<0, 1>>]

\* lines 124-129: the line printed when the function runs to its end
ReportLine(nm, st) ==
    IF st.ntested # 0
    THEN [nm |-> nm, kind |-> "stat", min |-> st.emin,
          avg |-> QDivInt(st.esum, st.ntested), max |-> st.emax]
    ELSE NoDataLine(nm)

\* lines 82-130, with m the SDMat that line 98 takes df->comp[0].dist to be.
\* The result: the final locals and calls, the lines printed, and whether
\* the matrix branch of line 97 was entered.
checkReciprocity(nm, s1, s2, sd, f, m) ==
    IF nothing2do(s1, s2, sd)
    THEN [st |-> Locals0, lines |-> <<NoDataLine(nm)>>, sampled |-> FALSE]
    ELSE IF IsMatrixFl(f)
    THEN LET st == OuterLoop(sd, m, m.ninc, Locals0)
         IN  [st |-> st,
              lines |-> IF st.ret THEN <<>> ELSE <<ReportLine(nm, st)>>,
              sampled |-> TRUE]
    ELSE [st |-> Locals0, lines |-> <<ReportLine(nm, Locals0)>>, sampled |-> FALSE]

(***************************************************************************)
(* Inputs.  A cell of a matrix input is [f, ec, r]: the table value f at   *)
(* (o, i), and the evaluator's result for the reversed pair of directions: *)
(* it fails (ec) or returns luminance r.                                   *)
(***************************************************************************)
KSkip == [f |-> FTINY, ec |-> FALSE, r |-> FTINY]      \* at the threshold: not tested
KRecip == [f |-> 2, ec |-> FALSE, r |-> 2]             \* reciprocal: error 0
KHalf == [f |-> 4, ec |-> FALSE, r |-> 2]              \* error 50 percent
KOff == [f |-> 2, ec |-> FALSE, r |-> 4]               \* error 100 percent
KHuge == [f |-> 2, ec |-> FALSE, r |-> 200000004]      \* error above FHUGE
KFail == [f |-> 2, ec |-> TRUE, r |-> 0]               \* the evaluator fails

StatKinds == {KSkip, KRecip, KHalf, KHuge}
FailKinds == {KSkip, KRecip, KOff, KFail}
GateKinds == {KSkip, KRecip, KOff}
OrderKinds == {KRecip, KHalf, KHuge}

Dims(maxcells) ==
    {d \in (1..maxcells) \X (1..maxcells) : d[1] * d[2] <= maxcells}

\* the (o, i) index pairs of a matrix with ni incoming and no outgoing bins
Cells(ni, no) == (0..(no - 1)) \X (0..(ni - 1))

MatInputs(ni, no, kinds, oks) ==
    [cells : [Cells(ni, no) -> kinds],
     incok : [0..(ni - 1) -> oks],
     outok : [0..(no - 1) -> oks]]

MatOf(ni, no, inp) ==
    SDMat(ni, no, FALSE, [p \in Cells(ni, no) |-> inp.cells[p].f], inp.incok, inp.outok)

EvOf(ni, no, inp) ==
    [p \in Cells(ni, no) |-> [ec |-> inp.cells[p].ec, cieY |-> inp.cells[p].r]]

\* a 1 x 1 matrix in the slots the call does not sample
Decoy ==
    SDComp(SDhandleMtx,
           SDMat(1, 1, FALSE, [p \in Cells(1, 1) |-> 4], [b \in {0} |-> TRUE],
                 [b \in {0} |-> TRUE]))

SlotNames == {"tb", "tf", "rf", "rb"}

\* the dataset whose slots `present` are loaded, slot `op` with matrix input inp
MatData(present, op, ni, no, inp) ==
    LET slot(n) == IF n \notin present THEN NULL
                   ELSE IF n = op THEN SDComp(SDhandleMtx, MatOf(ni, no, inp))
                   ELSE Decoy
    IN  [tb |-> slot("tb"), tf |-> slot("tf"), rf |-> slot("rf"), rb |-> slot("rb"),
         ev |-> EvOf(ni, no, inp)]

NoData == [tb |-> NULL, tf |-> NULL, rf |-> NULL, rb |-> NULL, ev |-> <<>>]

NoRun == [st |-> Locals0, lines |-> <<>>, sampled |-> FALSE]

\* the three calls of checkXML, lines 163-165
DriverSides == {<<1, 1>>, <<-1, -1>>, <<-1, 1>>}

Label(s1, s2) ==
    IF s1 = s2 THEN (IF s1 > 0 THEN "Front Refl" ELSE "Back Refl") ELSE "Transmission"

(***************************************************************************)
(* One call of checkReciprocity on given arguments.                        *)
(***************************************************************************)
RecipStart(s, f, sd) ==
    /\ pc = "call"
    /\ side1 = s[1] /\ side2 = s[2] /\ fl = f /\ bsdf = sd
    /\ argc = 0 /\ argi = 0 /\ rc = 0 /\ started = <<>> /\ failed = {}
    /\ type = "" /\ flags = 0 /\ run = NoRun /\ out = <<>>

RecipCall ==
    /\ pc = "call"
    /\ LET df == Operative(side1, side2, bsdf)
           r == checkReciprocity(Label(side1, side2), side1, side2, bsdf, fl,
                                 df[1].dist)
       IN  /\ run' = r
           /\ out' = r.lines
    /\ pc' = "returned"
    /\ UNCHANGED <<argc, argi, rc, started, failed, bsdf, type, flags, side1, side2, fl>>

\* matrix sampling with an evaluator that never fails
InitStats ==
    \E d \in Dims(MaxCells), s \in DriverSides :
        \E inp \in MatInputs(d[1], d[2], StatKinds, BOOLEAN) :
            RecipStart(s, F_MATRIX,
                       MatData(SlotNames, OperativeName(s[1], s[2]), d[1], d[2], inp))

NextRecip == RecipCall

SpecStats == InitStats /\ [][NextRecip]_vars

\* matrix sampling with an evaluator that fails on some pairs
InitFail ==
    \E d \in Dims(MaxCells), s \in DriverSides :
        \E inp \in MatInputs(d[1], d[2], FailKinds, BOOLEAN) :
            RecipStart(s, F_MATRIX,
                       MatData(SlotNames, OperativeName(s[1], s[2]), d[1], d[2], inp))

SpecRecip == InitFail /\ [][NextRecip]_vars

\* the inputs of the order-independence check: every tested pair has one of
\* three different errors
InitOrder ==
    \E d \in Dims(OrderCells), s \in {<<1, 1>>, <<-1, 1>>} :
        \E inp \in MatInputs(d[1], d[2], OrderKinds, BOOLEAN) :
            RecipStart(s, F_MATRIX,
                       MatData(SlotNames, OperativeName(s[1], s[2]), d[1], d[2], inp))

SpecOrder == InitOrder /\ [][NextRecip]_vars

\* every side pair, flag word and set of loaded slots
InitGate ==
    \E d \in (1..GateBins) \X (1..GateBins), s \in {1, -1} \X {1, -1},
       f \in 0..15, present \in SUBSET SlotNames :
        \E inp \in MatInputs(d[1], d[2], GateKinds, {TRUE}) :
            RecipStart(s, f, MatData(present, OperativeName(s[1], s[2]), d[1], d[2], inp))

SpecGate == InitGate /\ [][NextRecip]_vars

(***************************************************************************)
(* What the claims speak of, computed from the dataset alone.              *)
(***************************************************************************)
OpMat == Operative(side1, side2, bsdf)[1].dist

OpCells == Cells(OpMat.ninc, OpMat.nout)

\* the pairs the specification says are tested
ShouldTest ==
    {p \in OpCells : /\ OpMat.incok[p[2]]
                     /\ OpMat.outok[p[1]]
                     /\ OpMat.bsdf[p] > FTINY}

\* the specification's relative error of a pair, in units of 100 percent
PairErr(p) == Q(Abs(OpMat.bsdf[p] - bsdf.ev[p].cieY), OpMat.bsdf[p])

RECURSIVE SumErr(_)
SumErr(S) ==
    IF S = {} THEN <<0, 1>>
    ELSE LET p == CHOOSE x \in S : TRUE IN QAdd(PairErr(p), SumErr(S \ {p}))

SeqSet(q) == {q[k] : k \in 1..Len(q)}

Returned == pc = "returned"

\* every pair is reciprocal and the evaluator fails nowhere
Reciprocal ==
    \A p \in OpCells : ~bsdf.ev[p].ec /\ bsdf.ev[p].cieY = OpMat.bsdf[p]

ZeroLine(nm) ==
    [nm |-> nm, kind |-> "stat", min |-> <<0, 1>>, avg |-> <<0, 1>>, max |-> <<0, 1>>]

\* C4: on a perfectly reciprocal matrix (the table value at (o,i) equals the
\* evaluator's luminance for the reversed pair, everywhere, and the evaluator
\* never fails) a check that tests at least one pair prints the statistic
\* min = mean = max = 0.
C4_ReciprocalIsZero ==
    (Returned /\ run.sampled /\ Reciprocal /\ run.st.ntested > 0)
        => out = <<ZeroLine(Label(side1, side2))>>

C4_Witness ==
    /\ Returned /\ run.sampled /\ Reciprocal
    /\ run.st.ntested >= 2
    /\ out = <<ZeroLine(Label(side1, side2))>>

\* one pair visited on its own: the incoming bin is reconstructed, then the
\* body of the inner loop runs
VisitPair(p, st) ==
    IF ~mBSDF_incvec(OpMat, p[2]).ok THEN st
    ELSE PairBody(bsdf, OpMat, p[2], p[1], st)

RECURSIVE EveryOrderPrints(_, _, _)
EveryOrderPrints(todo, st, lines) ==
    IF todo = {}
    THEN lines = (IF st.ret THEN <<>> ELSE <<ReportLine(Label(side1, side2), st)>>)
    ELSE \A p \in todo : EveryOrderPrints(todo \ {p}, VisitPair(p, st), lines)

C9_StatsOverTestedSet ==
    (Returned /\ run.sampled) =>
        /\ ~run.st.ret
        /\ SeqSet(run.st.evals) = ShouldTest
        /\ Len(run.st.evals) = Cardinality(ShouldTest)
        /\ run.st.ntested = Cardinality(ShouldTest)
        /\ Len(out) = 1
        /\ (out[1].kind = "stat") <=> (ShouldTest # {})
        /\ ShouldTest # {} =>
              /\ \E p \in ShouldTest : out[1].min = PairErr(p)
              /\ \A p \in ShouldTest : QLeq(out[1].min, PairErr(p))
              /\ \E p \in ShouldTest : out[1].max = PairErr(p)
              /\ \A p \in ShouldTest : QLeq(PairErr(p), out[1].max)
              /\ out[1].avg = QDivInt(SumErr(ShouldTest), Cardinality(ShouldTest))
              /\ QLeq(out[1].min, out[1].avg) /\ QLeq(out[1].avg, out[1].max)

\* The part of C9 that the code does satisfy: everything but the minimum,
\* which is the smaller of FHUGE and the least error of the set.
TestedSetButMin ==
    (Returned /\ run.sampled) =>
        /\ ~run.st.ret
        /\ SeqSet(run.st.evals) = ShouldTest
        /\ run.st.ntested = Cardinality(ShouldTest)
        /\ (out[1].kind = "stat") <=> (ShouldTest # {})
        /\ ShouldTest # {} =>
              /\ \A p \in ShouldTest : QLeq(out[1].min, PairErr(p))
              /\ \/ \E p \in ShouldTest : out[1].min = PairErr(p)
                 \/ out[1].min = <<FHUGE, 1>>
              /\ \E p \in ShouldTest : out[1].max = PairErr(p)
              /\ \A p \in ShouldTest : QLeq(PairErr(p), out[1].max)
              /\ out[1].avg = QDivInt(SumErr(ShouldTest), Cardinality(ShouldTest))
              /\ QLeq(out[1].min, out[1].avg) /\ QLeq(out[1].avg, out[1].max)

\* the failing evaluator calls of the run
FailedEvals == {k \in 1..Len(run.st.evals) : bsdf.ev[run.st.evals[k]].ec}

Last(q) == q[Len(q)]

\* C2: when the evaluator fails on a sampled pair the check returns at once:
\* the failing call is the last evaluator call and the last table lookup, no
\* direction is reconstructed after it, and no line at all is printed
\* (neither a statistic from the pairs accumulated so far nor "no data").
C2_AbortOnEvalFailure ==
    (Returned /\ run.sampled /\ FailedEvals # {}) =>
        /\ run.st.ret
        /\ out = <<>>
        /\ FailedEvals = {Len(run.st.evals)}
        /\ Last(run.st.looked) = Last(run.st.evals)
        /\ Last(run.st.recon) = <<"out", Last(run.st.evals)[1]>>

C2_Witness ==
    /\ Returned /\ run.sampled /\ FailedEvals # {}
    /\ run.st.ntested >= 1
    /\ Len(run.st.looked) < Cardinality(OpCells) - 1
    /\ out = <<>>

\* the slots the specification requires for the side pair, one of them absent
RequiredAbsent ==
    IF side1 = side2
    THEN (IF side1 = 1 THEN bsdf.rf = NULL ELSE bsdf.rb = NULL)
    ELSE bsdf.tf = NULL \/ bsdf.tb = NULL

NothingCalled ==
    run.st.recon = <<>> /\ run.st.looked = <<>> /\ run.st.evals = <<>>

\* C1: with a required slot absent (rf for front/front, rb for back/back, tf
\* or tb for differing sides) the check prints "no data", for every flag word,
\* reconstructs no direction and never calls the evaluator.
C1_AbsentIsNoData ==
    (Returned /\ RequiredAbsent) =>
        /\ out = <<NoDataLine(Label(side1, side2))>>
        /\ NothingCalled

C1_Witness ==
    /\ Returned /\ side1 # side2
    /\ bsdf.tf # NULL /\ bsdf.tb = NULL
    /\ fl = F_MATRIX
    /\ out = <<NoDataLine("Transmission")>>

\* C8: without the matrix flag the check is a no-op: "no data" for every side
\* pair and dataset, no direction reconstructed, the evaluator never called,
\* also when every required slot is present.
C8_NonMatrixIsNoData ==
    (Returned /\ (fl \div F_MATRIX) % 2 = 0) =>
        /\ out = <<NoDataLine(Label(side1, side2))>>
        /\ NothingCalled

C8_Witness ==
    /\ Returned /\ fl = F_TTREE + F_ISOTROPIC
    /\ ~RequiredAbsent
    /\ OpMat.bsdf[<<0, 0>>] > FTINY
    /\ out = <<NoDataLine(Label(side1, side2))>>

(***************************************************************************)
(* getBSDFtype applied to a dataset: every combination of four slots, each *)
(* NULL, a matrix (ninc 145, 73, 41 or another count, with or without      *)
(* chroma), a tensor tree (ndim 3, 4 or another, with or without a second  *)
(* tree) or a component of another kind.                                   *)
(***************************************************************************)
NoTable == <<>>

TypeSlots ==
    {NULL}
    \cup {SDComp(SDhandleMtx, SDMat(n, n, c, NoTable, NoTable, NoTable)) :
              n \in {145, 73, 41, 7}, c \in BOOLEAN}
    \cup {SDComp(SDhandleTre, SDTre(n, c)) : n \in {3, 4, 5}, c \in BOOLEAN}
    \cup {SDComp(SDhandleOther, [opaque |-> 0])}

InitType ==
    /\ pc = "classify"
    /\ \E a \in TypeSlots, b \in TypeSlots, c \in TypeSlots, d \in TypeSlots :
           bsdf = [tb |-> a, tf |-> b, rf |-> c, rb |-> d, ev |-> <<>>]
    /\ side1 = 0 /\ side2 = 0 /\ fl = 0
    /\ argc = 0 /\ argi = 0 /\ rc = 0 /\ started = <<>> /\ failed = {}
    /\ type = "" /\ flags = 0 /\ run = NoRun /\ out = <<>>

Classify ==
    /\ pc = "classify"
    /\ LET t == getBSDFtype(bsdf)
       IN  type' = t.tag /\ flags' = t.flags
    /\ pc' = "classified"
    /\ UNCHANGED <<argc, argi, rc, started, failed, bsdf, side1, side2, fl, run, out>>

NextType == Classify

SpecType == InitType /\ [][NextType]_vars

Classified == pc = "classified"

RfIsKlemsFull ==
    /\ bsdf.rf # NULL
    /\ bsdf.rf[1].func = SDhandleMtx
    /\ bsdf.rf[1].dist.ninc = 145

\* C6 as stated: a dataset whose rf is a matrix with ninc = 145 classifies as
\* Klems_Full with the matrix flag set, whatever tb, tf and rb hold.
C6_RfKlemsFullAlways ==
    (Classified /\ RfIsKlemsFull) =>
        (type = "Klems_Full" /\ (flags \div F_MATRIX) % 2 = 1)

\* C6 amended: a dataset whose rf is a matrix with ninc = 145 and whose tb and
\* tf are absent classifies as Klems_Full with the matrix flag set, whatever
\* rb holds.
C6_RfKlemsFullWhenFirst ==
    (Classified /\ RfIsKlemsFull /\ bsdf.tb = NULL /\ bsdf.tf = NULL) =>
        (type = "Klems_Full" /\ (flags \div F_MATRIX) % 2 = 1)

C6_Witness ==
    /\ Classified /\ RfIsKlemsFull /\ bsdf.tb = NULL /\ bsdf.tf = NULL
    /\ bsdf.rb # NULL /\ bsdf.rb[1].func = SDhandleTre
    /\ type = "Klems_Full" /\ flags = F_MATRIX + F_IN_COLOR

\* the first present slot in the order tb, tf, rf, rb (NULL when none is)
FirstPresent ==
    CASE bsdf.tb # NULL -> bsdf.tb
      [] bsdf.tb = NULL /\ bsdf.tf # NULL -> bsdf.tf
      [] bsdf.tb = NULL /\ bsdf.tf = NULL /\ bsdf.rf # NULL -> bsdf.rf
      [] OTHER -> bsdf.rb

OnlySlot(df) == [tb |-> df, tf |-> NULL, rf |-> NULL, rb |-> NULL, ev |-> <<>>]

\* C7: the classifier decides from the first present slot in the order tb,
\* tf, rf, rb alone: the tag and flags are those of the dataset holding that
\* slot and nothing else, and with all four slots absent the tag is
\* Pure_Lambertian (the specification's "Pure Lambertian") with no flag set.
C7_FirstPresentDecides ==
    Classified =>
        /\ [tag |-> type, flags |-> flags] = getBSDFtype(OnlySlot(FirstPresent))
        /\ FirstPresent = NULL => (type = "Pure_Lambertian" /\ flags = 0)
        /\ FirstPresent # NULL => type # "Pure_Lambertian"

C7_Witness ==
    /\ Classified /\ bsdf.tb = NULL
    /\ bsdf.tf # NULL /\ bsdf.tf[1].func = SDhandleTre /\ bsdf.tf[1].dist.ndim = 3
    /\ bsdf.rf # NULL /\ bsdf.rf[1].func = SDhandleMtx
    /\ type = "Isotropic_Tensor_Tree" /\ flags = F_TTREE + F_ISOTROPIC

(***************************************************************************)
(* The driver: main and checkXML.  The dataset SDloadFile fills in is any  *)
(* combination of four slots, each NULL, a 1 x 1 matrix, a tensor tree or  *)
(* a component of another kind, with any evaluator result.                 *)
(***************************************************************************)
Ok1 == [b \in {0} |-> TRUE]

DriverMats == {SDMat(1, 1, FALSE, [p \in Cells(1, 1) |-> v], Ok1, Ok1) : v \in {FTINY, 2}}

DriverSlots ==
    {NULL}
    \cup {SDComp(SDhandleMtx, m) : m \in DriverMats}
    \cup {SDComp(SDhandleTre, SDTre(4, FALSE))}
    \cup {SDComp(SDhandleOther, [opaque |-> 0])}

DriverEvals ==
    {[p \in Cells(1, 1) |-> e] :
        e \in {[ec |-> FALSE, cieY |-> 2], [ec |-> FALSE, cieY |-> 4],
               [ec |-> TRUE, cieY |-> 0]}}

DriverData == [tb : DriverSlots, tf : DriverSlots, rf : DriverSlots, rb : DriverSlots,
               ev : DriverEvals]

\* line 98: what (const SDMat *)df->comp[0].dist is read as.  The dist of a
\* matrix component is its SDMat; the dist of any other component is not an
\* SDMat, and reading it as one may yield any matrix (or fault, see
\* CheckXMLRecipFault).
MatView(s1, s2, sd, f) ==
    LET df == Operative(s1, s2, sd)
    IN  IF nothing2do(s1, s2, sd) \/ ~IsMatrixFl(f) THEN {Decoy[1].dist}
        ELSE IF df[1].func = SDhandleMtx THEN {df[1].dist}
        ELSE DriverMats

\* line 98 reads a dist that is no SDMat
Misread(s1, s2, sd, f) ==
    /\ ~nothing2do(s1, s2, sd)
    /\ IsMatrixFl(f)
    /\ Operative(s1, s2, sd)[1].func # SDhandleMtx

MainAfterCheckXMLContinue(ret, i) == [pc |-> "main", rc |-> 0, argi |-> i + 1]

\* lines 183, 185-186: if (!checkXML(argv[i])) return 1; else i++
MainAfterCheckXML(ret, i) ==
    IF ret = 0 THEN [pc |-> "exit", rc |-> 1, argi |-> i]
    ELSE [pc |-> "main", rc |-> 0, argi |-> i + 1]

Init ==
    /\ pc = "start"
    /\ argc \in 1..(MaxFiles + 1)
    /\ argi = 0 /\ rc = 0 /\ started = <<>> /\ failed = {}
    /\ bsdf = NoData /\ type = "" /\ flags = 0
    /\ side1 = 0 /\ side2 = 0 /\ fl = 0 /\ run = NoRun /\ out = <<>>

\* lines 179-182
MainUsage ==
    /\ pc = "start" /\ argc < 2
    /\ pc' = "exit" /\ rc' = 1
    /\ UNCHANGED <<argc, argi, started, failed, bsdf, type, flags, side1, side2, fl,
                   run, out>>

\* lines 179, 183: for (i = 1; ...
MainBegin ==
    /\ pc = "start" /\ argc >= 2
    /\ pc' = "main" /\ argi' = 1
    /\ UNCHANGED <<argc, rc, started, failed, bsdf, type, flags, side1, side2, fl,
                   run, out>>

\* lines 183-185 and 141-142: the next file is handed to checkXML
MainLoop ==
    /\ pc = "main" /\ argi < argc
    /\ started' = Append(started, argi)
    /\ bsdf' = NoData
    /\ type' = "" /\ flags' = 0
    /\ side1' = 0 /\ side2' = 0 /\ fl' = 0 /\ run' = NoRun /\ out' = <<>>
    /\ pc' = "checkXML"
    /\ UNCHANGED <<argc, argi, rc, failed>>

\* lines 183, 188
MainReturn ==
    /\ pc = "main" /\ argi >= argc
    /\ pc' = "exit" /\ rc' = 0
    /\ UNCHANGED <<argc, argi, started, failed, bsdf, type, flags, side1, side2, fl,
                   run, out>>

Return(ret) ==
    LET a == MainAfterCheckXML(ret, argi)
    IN  /\ pc' = a.pc /\ rc' = a.rc /\ argi' = a.argi
        /\ failed' = IF ret = 0 THEN failed \cup {argi} ELSE failed

\* lines 143-147: getpath finds no file
CheckXMLNotFound ==
    /\ pc = "checkXML"
    /\ Return(0)
    /\ UNCHANGED <<argc, started, bsdf, type, flags, side1, side2, fl, run, out>>

\* lines 143-144: getpath finds the file
CheckXMLFound ==
    /\ pc = "checkXML"
    /\ pc' = "load"
    /\ UNCHANGED <<argc, argi, rc, started, failed, bsdf, type, flags, side1, side2, fl,
                   run, out>>

\* lines 148-149, 168-171: SDloadFile returns an error
CheckXMLLoadError ==
    /\ pc = "load"
    /\ Return(0)
    /\ UNCHANGED <<argc, started, bsdf, type, flags, side1, side2, fl, run, out>>

\* lines 148-149: SDloadFile fills myBSDF
CheckXMLLoaded ==
    /\ pc = "load"
    /\ bsdf' \in DriverData
    /\ pc' = "report"
    /\ UNCHANGED <<argc, argi, rc, started, failed, type, flags, side1, side2, fl,
                   run, out>>

\* lines 150-162: the header, the type and the component details
CheckXMLReport ==
    /\ pc = "report"
    /\ LET t == getBSDFtype(bsdf)
       IN  type' = t.tag /\ flags' = t.flags
    /\ pc' = "recip1"
    /\ UNCHANGED <<argc, argi, rc, started, failed, bsdf, side1, side2, fl, run, out>>

RecipArgs ==
    CASE pc = "recip1" -> [s |-> <<1, 1>>, next |-> "recip2"]
      [] pc = "recip2" -> [s |-> <<-1, -1>>, next |-> "recip3"]
      [] pc = "recip3" -> [s |-> <<-1, 1>>, next |-> "free"]

\* lines 163-165: one call of checkReciprocity with the flags of line 154
CheckXMLRecip ==
    /\ pc \in {"recip1", "recip2", "recip3"}
    /\ LET a == RecipArgs
       IN  /\ side1' = a.s[1] /\ side2' = a.s[2] /\ fl' = flags
           /\ \E m \in MatView(a.s[1], a.s[2], bsdf, flags) :
                  LET r == checkReciprocity(Label(a.s[1], a.s[2]), a.s[1], a.s[2],
                                            bsdf, flags, m)
                  IN  run' = r /\ out' = out \o r.lines
           /\ pc' = a.next
    /\ UNCHANGED <<argc, argi, rc, started, failed, bsdf, type, flags>>

\* lines 98-99: reading a dist that is no SDMat may also end the process
CheckXMLRecipFault ==
    /\ pc \in {"recip1", "recip2", "recip3"}
    /\ LET a == RecipArgs
       IN  /\ Misread(a.s[1], a.s[2], bsdf, flags)
           /\ side1' = a.s[1] /\ side2' = a.s[2] /\ fl' = flags
    /\ pc' = "fault"
    /\ UNCHANGED <<argc, argi, rc, started, failed, bsdf, type, flags, run, out>>

\* lines 166-167
CheckXMLDone ==
    /\ pc = "free"
    /\ Return(1)
    /\ UNCHANGED <<argc, started, bsdf, type, flags, side1, side2, fl, run, out>>

Next ==
    \/ MainUsage
    \/ MainBegin
    \/ MainLoop
    \/ MainReturn
    \/ CheckXMLNotFound
    \/ CheckXMLFound
    \/ CheckXMLLoadError
    \/ CheckXMLLoaded
    \/ CheckXMLReport
    \/ CheckXMLRecip
    \/ CheckXMLRecipFault
    \/ CheckXMLDone

Spec == Init /\ [][Next]_vars

\* C3 as stated: a load failure ends the processing of that file only, so
\* when main has returned every file of the command line was handed to
\* checkXML.
C3_BatchSurvivesFailure ==
    (pc = "exit" /\ failed # {}) =>
        \A k \in 1..(argc - 1) : k \in SeqSet(started)

\* C3 amended: a load failure ends the processing of that file and of the
\* batch: main returns 1 at once, the failing file is the last one handed to
\* checkXML, and no later file is processed.
C3_FailureEndsBatch ==
    (failed # {}) =>
        /\ pc = "exit" /\ rc = 1
        /\ failed = {Last(started)}
        /\ started = [k \in 1..Len(started) |-> k]
        /\ argi = Last(started)

C3_Witness ==
    /\ pc = "exit" /\ rc = 1
    /\ argc = 3
    /\ failed = {1} /\ started = <<1>>

\* C10: in the driver, whenever checkReciprocity samples its operative slot
\* as a matrix, the first component of that slot is a matrix.
C10_SampledSlotIsMatrix ==
    (pc \in {"recip2", "recip3", "free", "fault"} /\ (run.sampled \/ pc = "fault")) =>
        Operative(side1, side2, bsdf)[1].func = SDhandleMtx

====
